---- MODULE Spec2Model ----
(***************************************************************************)
(* Pagination cursors of realtime_twitter_api: the Search session          *)
(* (get_more_tweets, get_latest_tweets) and the reply cursor of a Tweet    *)
(* (get_replies).  The upstream service is the environment: it answers     *)
(* every request with a page of records or with a failure.                 *)
(***************************************************************************)
EXTENDS Integers, Sequences, FiniteSets, TLC

\* ------------------------------------------------------------------ bounds
NumTweets == 3        \* tweets the upstream holds for the query, ids 1..NumTweets
PageSize == 2         \* most records the upstream puts in one page
MaxTimes == 3         \* largest repeat count a caller passes
NumReplies == 5       \* replies in the thread of the tweet, ids 1..NumReplies
MaxCount == 1         \* largest reply / retweet / like counter of an upstream record
MaxUrlLen == 2        \* most characters of a quoted tweet's url
MaxListLen == 3       \* longest list handed to sort_tweets on its own
MaxStamp == 2         \* largest createdAt in such a list
MaxDocLen == 2        \* most elements of a fetched HTML document
MaxItems == 1         \* most items of one trend collection

\* the empty string '' used as "no id seen yet" (ids are positive numbers)
EmptyId == 0

SortModes == {"t", "h"}
Queries == {"tla"}
Crumbs == {"crumb1"}

VARIABLES
    driven,                                \* the object the caller's script works on
    query, search_media, sort_by, crumb,   \* Search: fixed at construction
    results,                               \* Search.results
    oldest_tweet_id,                       \* Search._oldest_tweet_id
    latest_tweet_id,                       \* Search._latest_tweet_id
    tweet_count,                           \* Search._tweet_count
    reply_count,                           \* Tweet._reply_count
    call,                                  \* the call in progress, or the last one made
    pc,                                    \* where that call stands
    times,                                 \* its repeat count
    iter,                                  \* its iterations completed
    acc,                                   \* its local list `results`
    request,                               \* the requests it has sent, in order
    outcome,                               \* how it ended: none, returned, raised
    returned,                              \* the list it returned
    first_page,                            \* history: first page as the upstream delivered it
    pages,                                 \* history: pages the call received, in order
    delivered,                             \* history: tweet ids in results or returned before this call
    replies_delivered,                     \* history: reply ids returned before this call
    more_ids,                              \* history: tweet ids of all get_more_tweets pages
    more_sizes,                            \* history: sum of the sizes of all get_more_tweets pages
    reply_sizes,                           \* history: sum of the sizes of all get_replies pages
    newest_batch,                          \* history: newest batch before this call: results, then
                                           \* the last non-empty get_latest_tweets batch
    fn, arg, out                           \* a module-level function or constructor applied on its
                                           \* own: its name, its input, and what it returned or raised

vars == <<driven, query, search_media, sort_by, crumb, results, oldest_tweet_id,
          latest_tweet_id, tweet_count, reply_count, call, pc, times, iter, acc,
          request, outcome, returned, first_page, pages, delivered,
          replies_delivered, more_ids, more_sizes, reply_sizes, newest_batch,
          fn, arg, out>>

applied == <<fn, arg, out>>

search_fixed == <<driven, query, search_media, sort_by, crumb, results, first_page>>
search_cursor == <<oldest_tweet_id, latest_tweet_id, tweet_count>>
more_history == <<more_ids, more_sizes>>
reply_history == <<reply_sizes>>
call_history == <<delivered, replies_delivered, newest_batch>>

\* ------------------------------------------------------------ the upstream
\* createdAt of the tweet with a given id: newer ids are never older, and
\* neighbouring ids may share a timestamp.
CreatedAt(i) == (i + 1) \div 2

\* What Tweet.__init__ keeps of an upstream record, as far as cursors go.
Tweet(i) == [id |-> i, created_at |-> CreatedAt(i)]

\* The upstream's popularity order of ids, most popular first.
PopularOrder == [k \in 1..NumTweets |-> (k % NumTweets) + 1]

Min(a, b) == IF a < b THEN a ELSE b

SeqIds(s) == {s[k].id : k \in 1..Len(s)}

Last(s) == s[Len(s)]

\* Every list of at most n distinct tweets with ids in S.
PagesOf(S, n) ==
    LET lists == UNION {[1..m -> S] : m \in 0..n}
        distinct == {f \in lists : \A a, b \in DOMAIN f : a # b => f[a] # f[b]}
    IN  {[k \in DOMAIN f |-> Tweet(f[k])] : f \in distinct}

\* Up to size consecutive entries of a list of n ids, from offset start on.
SliceFrom(ids, n, start, size) ==
    {[k \in 1..m |-> Tweet(ids[start + k])] :
        m \in 0..(IF start >= n THEN 0 ELSE Min(size, n - start))}

\* Ids strictly older / strictly newer than a bound; an empty bound bounds
\* nothing ("fetch from the beginning").
OlderThan(bound) ==
    IF bound = EmptyId THEN 1..NumTweets ELSE {i \in 1..NumTweets : i < bound}
NewerThan(bound) == {i \in 1..NumTweets : i > bound}

\* The pages an upstream that honours the request may answer with.
FirstPages(md) ==
    IF md = "t" THEN PagesOf(1..NumTweets, PageSize)
    ELSE SliceFrom(PopularOrder, NumTweets, 0, PageSize)

PaginationPages(req) ==
    IF "oldestTweetId" \in DOMAIN req
    THEN PagesOf(OlderThan(req.oldestTweetId), PageSize)
    ELSE IF "start" \in DOMAIN req
    THEN SliceFrom(PopularOrder, NumTweets, req.start, PageSize)
    ELSE PagesOf(1..NumTweets, PageSize)

AutoscrollPages(req) == PagesOf(NewerThan(req.latestTweetId), PageSize)

ReplyPages(req) ==
    SliceFrom([k \in 1..NumReplies |-> k], NumReplies, req.start, PageSize)

\* ------------------------------------------------------------- the program
\* sorted(tweet_list, key=created_at, reverse=True): descending, and stable.
InsertSorted(x, s) ==
    LET k == Cardinality({j \in 1..Len(s) : s[j].created_at > x.created_at})
    IN  SubSeq(s, 1, k) \o <<x>> \o SubSeq(s, k + 1, Len(s))

InsertAfterTies(x, s) ==
    LET k == Cardinality({j \in 1..Len(s) : s[j].created_at >= x.created_at})
    IN  SubSeq(s, 1, k) \o <<x>> \o SubSeq(s, k + 1, Len(s))

RECURSIVE sort_tweets_ties_reversed(_)
sort_tweets_ties_reversed(tweet_list) ==
    IF tweet_list = <<>> THEN <<>>
    ELSE InsertAfterTies(Head(tweet_list), sort_tweets_ties_reversed(Tail(tweet_list)))

RECURSIVE sort_tweets(_)
sort_tweets(tweet_list) ==
    IF tweet_list = <<>> THEN <<>>
    ELSE InsertSorted(Head(tweet_list), sort_tweets(Tail(tweet_list)))

InitResultsUnsorted(md, page) == page

\* Search.__init__: self.results
InitResults(md, page) == IF md = "t" THEN sort_tweets(page) ELSE page

InitOldestTweetIdNone(page) == IF page # <<>> THEN Last(page).id ELSE -1

\* Search.__init__: the watermarks, read from the local list `results`,
\* which is the page as mapped, before any sorting.
InitOldestTweetId(page) == IF page # <<>> THEN Last(page).id ELSE EmptyId
InitLatestTweetId(page) == IF page # <<>> THEN page[1].id ELSE EmptyId
InitTweetCount(page) == Len(page)

\* A URL is the endpoint and its query parameters.
WithParam(url, name, value) ==
    [n \in DOMAIN url \cup {name} |-> IF n = name THEN value ELSE url[n]]

WithMedia(url) == IF search_media THEN WithParam(url, "mtype", "image") ELSE url

\* Tweet.get_replies: the URL of one iteration
RepliesUrl == [path |-> "/api/v1/pagination/tweet", start |-> reply_count]

MoreTweetsUrlOffsetOnly ==
    WithParam(WithMedia([path |-> "/api/v1/pagination", crumb |-> crumb,
                         p |-> query, md |-> sort_by]),
              "start", tweet_count)

\* Search.get_more_tweets: the URL of one iteration
MoreTweetsUrl ==
    LET url == WithMedia([path |-> "/api/v1/pagination", crumb |-> crumb,
                          p |-> query, md |-> sort_by])
    IN  IF sort_by = "t" THEN WithParam(url, "oldestTweetId", oldest_tweet_id)
        ELSE IF sort_by = "h" THEN WithParam(url, "start", tweet_count)
        ELSE url

\* Search.get_latest_tweets: the URL
LatestTweetsUrl ==
    WithMedia([path |-> "/api/v1/autoscroll", crumb |-> crumb, p |-> query,
               latestTweetId |-> latest_tweet_id])

TweetCountAssigned(tweets) == Len(tweets)

MoreTweetsAsFetched(page) == page

\* Search.get_more_tweets: the page as used, and the cursor after it
MoreTweets(page) == IF sort_by = "t" THEN sort_tweets(page) ELSE page
OldestAfter(tweets) == IF tweets # <<>> THEN Last(tweets).id ELSE oldest_tweet_id
TweetCountAfter(tweets) == tweet_count + Len(tweets)

LatestAfterLastRecord(tweets) ==
    IF tweets # <<>> THEN Last(tweets).id ELSE latest_tweet_id

\* Search.get_latest_tweets: the cursor after the sorted batch
LatestAfter(tweets) == IF tweets # <<>> THEN tweets[1].id ELSE latest_tweet_id

LatestCursorBothEnds(tweets) ==
    [latest_tweet_id |-> LatestAfter(tweets),
     oldest_tweet_id |-> IF tweets # <<>> THEN Last(tweets).id ELSE oldest_tweet_id,
     tweet_count |-> tweet_count + Len(tweets)]

\* Search.get_latest_tweets: all it assigns is _latest_tweet_id
LatestCursor(tweets) ==
    [latest_tweet_id |-> LatestAfter(tweets),
     oldest_tweet_id |-> oldest_tweet_id,
     tweet_count |-> tweet_count]

ReplyCountByFullPage(replies) == reply_count + PageSize

\* Tweet.get_replies: the cursor after a page
ReplyCountAfter(replies) == reply_count + Len(replies)

LoopStopsAfterEmptyPage ==
    iter < times /\ (IF pages = <<>> THEN TRUE ELSE Last(pages) # <<>>)

\* for _ in range(times): whether another iteration follows
LoopContinues == iter < times

\* ------------------------------------------------------------------- Init
\* The state after construction.  A behaviour follows one object: a Search
\* built from any first page, or a Tweet whose replies the caller asks for
\* (the Search next to it then stays as built from an empty first page).
InitObjects ==
    /\ driven \in {"Search", "Tweet"}
    /\ query \in Queries
    /\ crumb \in Crumbs
    /\ IF driven = "Search"
       THEN /\ search_media \in BOOLEAN
            /\ sort_by \in SortModes
            /\ first_page \in FirstPages(sort_by)
       ELSE /\ search_media = FALSE
            /\ sort_by = "t"
            /\ first_page = <<>>
    /\ results = InitResults(sort_by, first_page)
    /\ oldest_tweet_id = InitOldestTweetId(first_page)
    /\ latest_tweet_id = InitLatestTweetId(first_page)
    /\ tweet_count = InitTweetCount(first_page)
    /\ reply_count = 0
    /\ call = "none"
    /\ pc = "idle"
    /\ times = 0
    /\ iter = 0
    /\ acc = <<>>
    /\ request = <<>>
    /\ outcome = "none"
    /\ returned = <<>>
    /\ pages = <<>>
    /\ delivered = SeqIds(results)
    /\ replies_delivered = {}
    /\ more_ids = {}
    /\ more_sizes = 0
    /\ reply_sizes = 0
    /\ newest_batch = results

\* No module-level function is applied on its own while an object is driven.
Pending == [kind |-> "pending"]

Init ==
    /\ InitObjects
    /\ fn = "none"
    /\ arg = <<>>
    /\ out = Pending

\* ---------------------------------------------------------------- actions
\* What the caller holds once the previous call is over: its return value
\* joins what was delivered before.
BeginCall(name, n) ==
    /\ pc = "idle"
    /\ call' = name
    /\ times' = n
    /\ iter' = 0
    /\ acc' = <<>>
    /\ pages' = <<>>
    /\ outcome' = "none"
    /\ returned' = <<>>
    /\ delivered' = IF outcome = "returned" /\ call \in {"more", "latest"}
                    THEN delivered \cup SeqIds(returned) ELSE delivered
    /\ replies_delivered' = IF outcome = "returned" /\ call = "replies"
                            THEN replies_delivered \cup SeqIds(returned)
                            ELSE replies_delivered
    /\ newest_batch' = IF outcome = "returned" /\ call = "latest" /\ returned # <<>>
                       THEN returned ELSE newest_batch

\* get_more_tweets(times): entry, results = []
GetMoreTweets(n) ==
    /\ driven = "Search"
    /\ BeginCall("more", n)
    /\ request' = <<>>
    /\ pc' = "loop"
    /\ UNCHANGED <<applied, search_fixed, search_cursor, reply_count, more_history, reply_history>>

\* get_replies(times): entry, results = []
GetReplies(n) ==
    /\ driven = "Tweet"
    /\ BeginCall("replies", n)
    /\ request' = <<>>
    /\ pc' = "loop"
    /\ UNCHANGED <<applied, search_fixed, search_cursor, reply_count, more_history, reply_history>>

\* One iteration, first half: build the URL and send the GET.
SendRequest ==
    /\ pc = "loop"
    /\ LoopContinues
    /\ request' = Append(request, IF call = "more" THEN MoreTweetsUrl ELSE RepliesUrl)
    /\ pc' = "fetch"
    /\ UNCHANGED <<applied, search_fixed, search_cursor, reply_count, call, times, iter, acc,
                   outcome, returned, pages, call_history, more_history, reply_history>>

\* get_more_tweets, second half of an iteration: the page arrives.
MoreTweetsResponse ==
    /\ pc = "fetch"
    /\ call = "more"
    /\ \E page \in PaginationPages(Last(request)) :
        LET tweets == MoreTweets(page) IN
        /\ oldest_tweet_id' = OldestAfter(tweets)
        /\ tweet_count' = TweetCountAfter(tweets)
        /\ acc' = acc \o tweets
        /\ pages' = Append(pages, page)
        /\ more_ids' = more_ids \cup SeqIds(page)
        /\ more_sizes' = more_sizes + Len(page)
    /\ iter' = iter + 1
    /\ pc' = "loop"
    /\ UNCHANGED <<applied, search_fixed, latest_tweet_id, reply_count, call, times, request,
                   outcome, returned, call_history, reply_history>>

\* get_replies, second half of an iteration: the page arrives.
RepliesResponse ==
    /\ pc = "fetch"
    /\ call = "replies"
    /\ \E page \in ReplyPages(Last(request)) :
        /\ acc' = acc \o page
        /\ reply_count' = ReplyCountAfter(page)
        /\ pages' = Append(pages, page)
        /\ reply_sizes' = reply_sizes + Len(page)
    /\ iter' = iter + 1
    /\ pc' = "loop"
    /\ UNCHANGED <<applied, search_fixed, search_cursor, call, times, request, outcome,
                   returned, call_history, more_history>>

\* return results, after the loop
Return ==
    /\ pc = "loop"
    /\ ~LoopContinues
    /\ pc' = "idle"
    /\ outcome' = "returned"
    /\ returned' = acc
    /\ UNCHANGED <<applied, search_fixed, search_cursor, reply_count, call, times, iter, acc,
                   request, pages, call_history, more_history, reply_history>>

\* get_latest_tweets(): build the URL and send the GET.
GetLatestTweets ==
    /\ driven = "Search"
    /\ BeginCall("latest", 1)
    /\ request' = <<LatestTweetsUrl>>
    /\ pc' = "fetch"
    /\ UNCHANGED <<applied, search_fixed, search_cursor, reply_count, more_history, reply_history>>

\* get_latest_tweets(): the batch arrives, is sorted and returned.
LatestTweetsResponse ==
    /\ pc = "fetch"
    /\ call = "latest"
    /\ \E page \in AutoscrollPages(Last(request)) :
        LET tweets == sort_tweets(page) IN
        /\ latest_tweet_id' = LatestCursor(tweets).latest_tweet_id
        /\ oldest_tweet_id' = LatestCursor(tweets).oldest_tweet_id
        /\ tweet_count' = LatestCursor(tweets).tweet_count
        /\ acc' = tweets
        /\ returned' = tweets
        /\ pages' = Append(pages, page)
    /\ iter' = iter + 1
    /\ outcome' = "returned"
    /\ pc' = "idle"
    /\ UNCHANGED <<applied, search_fixed, reply_count, call,
                   times, request, call_history, more_history, reply_history>>

FailureCaughtPartialReturned == [outcome |-> "returned", returned |-> acc]

\* What the caller gets when a fetch raises inside a call: no try/except
\* surrounds it, so the exception, and no list.
FailureResult == [outcome |-> "raised", returned |-> <<>>]

CursorRolledBack ==
    [oldest_tweet_id |-> IF "oldestTweetId" \in DOMAIN request[1]
                         THEN request[1].oldestTweetId ELSE oldest_tweet_id,
     tweet_count |-> IF call = "more" THEN tweet_count - Len(acc) ELSE tweet_count,
     latest_tweet_id |-> latest_tweet_id,
     reply_count |-> IF call = "replies" THEN request[1].start ELSE reply_count]

\* The cursor fields when a fetch raises: the failing iteration assigned
\* nothing yet, and nothing undoes the assignments of the iterations before.
CursorAfterFailure ==
    [oldest_tweet_id |-> oldest_tweet_id,
     tweet_count |-> tweet_count,
     latest_tweet_id |-> latest_tweet_id,
     reply_count |-> reply_count]

\* requests.get, json.loads or ['timeline']['entry'] raises: nothing catches
\* it, the call ends and its local list is gone.
FetchFails ==
    /\ pc = "fetch"
    /\ pc' = "idle"
    /\ outcome' = FailureResult.outcome
    /\ returned' = FailureResult.returned
    /\ acc' = <<>>
    /\ oldest_tweet_id' = CursorAfterFailure.oldest_tweet_id
    /\ tweet_count' = CursorAfterFailure.tweet_count
    /\ latest_tweet_id' = CursorAfterFailure.latest_tweet_id
    /\ reply_count' = CursorAfterFailure.reply_count
    /\ UNCHANGED <<applied, search_fixed, call, times, iter, request, pages, call_history,
                   more_history, reply_history>>

Next ==
    \/ \E n \in 0..MaxTimes : GetMoreTweets(n)
    \/ \E n \in 0..MaxTimes : GetReplies(n)
    \/ SendRequest
    \/ MoreTweetsResponse
    \/ RepliesResponse
    \/ Return
    \/ GetLatestTweets
    \/ LatestTweetsResponse
    \/ FetchFails

Spec == Init /\ [][Next]_vars

\* ------------------------------------------- functions applied on their own
\* Python values that are not plain numbers or lists of records
None == [py |-> "None"]
Str(chars) == [py |-> "str", chars |-> chars]

\* How a call ends
Returns(value) == [kind |-> "return", value |-> value]
Raises(error) == [kind |-> "raise", error |-> error]

\* str.split('?')[0]: the characters before the first '?', all of them if
\* there is none
SplitFirst(chars) ==
    LET marks == {k \in 1..Len(chars) : chars[k] = "?"}
    IN  IF marks = {} THEN chars
        ELSE SubSeq(chars, 1, (CHOOSE k \in marks : \A j \in marks : k <= j) - 1)

QuotedTweetWholeUrl(tweet_data) ==
    IF "quotedTweet" \notin DOMAIN tweet_data THEN None
    ELSE IF tweet_data.quotedTweet = None THEN None
    ELSE Str(tweet_data.quotedTweet.url)

\* Tweet.__init__: self.quoted_tweet =
\*   tweet_data.get('quotedTweet') and tweet_data['quotedTweet']['url'].split('?')[0]
QuotedTweet(tweet_data) ==
    IF "quotedTweet" \notin DOMAIN tweet_data THEN None
    ELSE IF tweet_data.quotedTweet = None THEN tweet_data.quotedTweet
    ELSE Str(SplitFirst(tweet_data.quotedTweet.url))

\* Tweet.__init__: self.media, from tweet_data.get('media', [])
Media(tweet_data) ==
    LET media == IF "media" \in DOMAIN tweet_data THEN tweet_data.media ELSE <<>>
    IN  [k \in 1..Len(media) |-> [type |-> media[k].type, url |-> media[k].item.url]]

\* Tweet.__init__ on an upstream record that has every key the constructor
\* indexes (content, urls, hashtags, mentions and the user fields are plain
\* copies and left out).
TweetInit(tweet_data) ==
    Returns([id |-> tweet_data.id,
             created_at |-> tweet_data.createdAt,
             reply_count |-> tweet_data.replyCount,
             rt_count |-> tweet_data.replyCount,
             likes_count |-> tweet_data.likesCount,
             quoted_tweet |-> QuotedTweet(tweet_data),
             media |-> Media(tweet_data),
             fetched_replies |-> 0])

\* Upstream records: the counters, an optional quotedTweet (left out, null,
\* or an object with a url) and an optional media list.
Urls == UNION {[1..n -> {"u", "?"}] : n \in 1..MaxUrlLen}

QuotedTweets == {None} \cup {[url |-> u] : u \in Urls}

MediaLists == {<<[type |-> "image", item |-> [url |-> <<"u">>]]>>}

BareRecords ==
    {[id |-> 1, createdAt |-> CreatedAt(1), replyCount |-> r, rtCount |-> t,
      likesCount |-> l] : r \in 0..MaxCount, t \in 0..MaxCount, l \in 0..MaxCount}

WithOptional(S, name, values) ==
    S \cup {WithParam(rec, name, v) : rec \in S, v \in values}

TweetRecords ==
    WithOptional(WithOptional(BareRecords, "quotedTweet", QuotedTweets),
                 "media", MediaLists)

\* Lists for sort_tweets alone: the k-th record has id k and any timestamp.
TweetLists ==
    UNION {{[k \in 1..n |-> [id |-> k, created_at |-> stamp[k]]] :
                stamp \in [1..n -> 1..MaxStamp]} : n \in 0..MaxListLen}

\* ---- fetched HTML documents
\* A document is the sequence of its elements, all on one line: plain
\* markup, some other script element, or the script element with
\* id="__NEXT_DATA__" and its body. A body is empty, text that is not JSON,
\* or JSON text, given by the value it parses to.
Markup == [tag |-> "markup"]
OtherScript == [tag |-> "script"]
NextDataScript(body) == [tag |-> "next_data", body |-> body]

EmptyBody == [text |-> "empty"]
MalformedBody == [text |-> "malformed"]
JsonBody(value) == [text |-> "json", value |-> value]

EmptyObject == [k \in {} |-> 0]                 \* the JSON object {}
NextData(page_data) == [props |-> [pageProps |-> [pageData |-> page_data]]]

\* upstream items of the three trend collections
TrendItem(n) == [query |-> n, rankUp |-> 0, tweetCount |-> n, genre |-> "g", childBuzz |-> 0]
TweetItem(n) ==
    [url |-> [path |-> "/realtime/search/tweet/", digits |-> n], body |-> "b",
     imageUrl |-> "i", reply |-> 0, rt |-> 0, like |-> 0, time |-> n]
HotbuzzItem(n) == [query |-> n]

TrendItemLists == {[k \in 1..n |-> TrendItem(k)] : n \in 0..MaxItems}
TweetItemLists == {[k \in 1..n |-> TweetItem(k)] : n \in 0..MaxItems}
HotbuzzItemLists == {[k \in 1..n |-> HotbuzzItem(k)] : n \in 0..MaxItems}

\* pageData of the trend page, of a search page and of a tweet's page
TrendPages ==
    {[buzzTrend |-> [items |-> t], poptw |-> [items |-> w], hotBuzz |-> [items |-> h]] :
        t \in TrendItemLists, w \in TweetItemLists, h \in HotbuzzItemLists}

SearchPages ==
    {[timeline |-> [entry |-> e], pagination |-> [params |-> [crumb |-> c]],
      buzzTrend |-> [items |-> t], poptw |-> [items |-> w]] :
        e \in {<<>>, <<Tweet(1), Tweet(NumTweets)>>}, c \in Crumbs,
        t \in TrendItemLists, w \in TweetItemLists}

TweetPages == {[bestTweet |-> tweet_data] : tweet_data \in BareRecords}

FullTrendPage ==
    [buzzTrend |-> [items |-> <<TrendItem(1)>>], poptw |-> [items |-> <<TweetItem(1)>>],
     hotBuzz |-> [items |-> <<HotbuzzItem(1)>>]]

Elements ==
    {Markup, OtherScript} \cup
    {NextDataScript(b) : b \in {EmptyBody, MalformedBody, JsonBody(EmptyObject),
                                JsonBody(NextData(FullTrendPage))}}

Documents ==
    UNION {[1..n -> Elements] : n \in 0..MaxDocLen}
    \cup {<<Markup, NextDataScript(JsonBody(NextData(pd)))>> :
            pd \in TrendPages \cup SearchPages \cup TweetPages}

HasMarker(response_text) ==
    \E k \in 1..Len(response_text) : response_text[k].tag = "next_data"

\* json.loads
json_loads(body) ==
    IF body.text = "json" THEN Returns(body.value) ELSE Raises("JSONDecodeError")

\* re.findall(r'<script id="__NEXT_DATA__" type="application/json">(.+?)</script>', text):
\* the captures, left to right. (.+?) needs one character at least, so after
\* an opening tag with an empty body the capture runs on to the next
\* </script> of the line, and is then not JSON; with no later </script>
\* that opening tag matches nothing.
RECURSIVE findall(_, _)
findall(response_text, from) ==
    IF from > Len(response_text) THEN <<>>
    ELSE IF response_text[from].tag # "next_data" THEN findall(response_text, from + 1)
    ELSE IF response_text[from].body # EmptyBody
    THEN <<response_text[from].body>> \o findall(response_text, from + 1)
    ELSE LET closing == {k \in from + 1..Len(response_text) : response_text[k].tag # "markup"}
         IN  IF closing = {} THEN <<>>
             ELSE <<MalformedBody>> \o findall(response_text, (CHOOSE k \in closing : \A j \in closing : k <= j) + 1)

get_next_data_or_empty(response_text) ==
    LET matches == findall(response_text, 1)
    IN  IF matches = <<>> THEN Returns(EmptyObject) ELSE json_loads(matches[1])

\* get_next_data, given the text the request returned: json.loads(findall(...)[0])
get_next_data(response_text) ==
    LET matches == findall(response_text, 1)
    IN  IF matches = <<>> THEN Raises("IndexError") ELSE json_loads(matches[1])

\* next_data['props']['pageProps']['pageData'] and the keys read from it
PageData(next_data, keys) ==
    IF "props" \notin DOMAIN next_data THEN Raises("KeyError")
    ELSE IF ~(keys \subseteq DOMAIN next_data.props.pageProps.pageData) THEN Raises("KeyError")
    ELSE Returns(next_data.props.pageProps.pageData)

\* A list argument left at its default None is written <<>>: `if items:`
\* takes both the same way.
Omitted == <<>>

TrendEntry(item) ==
    [query |-> item.query, rank_up |-> item.rankUp, tweet_count |-> item.tweetCount,
     genre |-> item.genre, child_buzz |-> item.childBuzz]

\* re.findall(r'/realtime/search/tweet/(\d+)', item['url'])[0]
TweetEntry(item) ==
    [id |-> item.url.digits, body |-> item.body, image_url |-> item.imageUrl,
     reply_count |-> item.reply, rt_count |-> item.rt, like_count |-> item.like,
     time |-> item.time]

\* make_trend_dict: a key is added only for a non-empty collection; the
\* third key is 'hotbuzz'.
make_trend_dict(trend_items, tweet_items, hotbuzz_items) ==
    LET d0 == EmptyObject
        d1 == IF trend_items # <<>>
              THEN WithParam(d0, "trend", [k \in 1..Len(trend_items) |-> TrendEntry(trend_items[k])])
              ELSE d0
        d2 == IF tweet_items # <<>>
              THEN WithParam(d1, "tweet", [k \in 1..Len(tweet_items) |-> TweetEntry(tweet_items[k])])
              ELSE d1
    IN  IF hotbuzz_items # <<>>
        THEN WithParam(d2, "hotbuzz", [k \in 1..Len(hotbuzz_items) |-> hotbuzz_items[k].query])
        ELSE d2

\* get_trend, given the text of the trend page
get_trend(response_text) ==
    LET next_data == get_next_data(response_text)
    IN  IF next_data.kind = "raise" THEN next_data
        ELSE LET pd == PageData(next_data.value, {"buzzTrend", "poptw", "hotBuzz"})
             IN  IF pd.kind = "raise" THEN pd
                 ELSE Returns(make_trend_dict(pd.value.buzzTrend.items, pd.value.poptw.items,
                                              pd.value.hotBuzz.items))

\* search_tweet_by_id, given the text of the tweet's page
search_tweet_by_id(response_text) ==
    LET next_data == get_next_data(response_text)
    IN  IF next_data.kind = "raise" THEN next_data
        ELSE LET pd == PageData(next_data.value, {"bestTweet"})
             IN  IF pd.kind = "raise" THEN pd ELSE TweetInit(pd.value.bestTweet)

\* Search.__init__, given the text of the search page
SearchInit(q, media, md, response_text) ==
    LET next_data == get_next_data(response_text)
    IN  IF next_data.kind = "raise" THEN next_data
        ELSE LET pd == PageData(next_data.value, {"timeline", "pagination", "buzzTrend", "poptw"})
             IN  IF pd.kind = "raise" THEN pd
                 ELSE Returns([search_media |-> media, query |-> q, sort_by |-> md,
                               results |-> InitResults(md, pd.value.timeline.entry),
                               oldest_tweet_id |-> InitOldestTweetId(pd.value.timeline.entry),
                               latest_tweet_id |-> InitLatestTweetId(pd.value.timeline.entry),
                               tweet_count |-> InitTweetCount(pd.value.timeline.entry),
                               crumb |-> pd.value.pagination.params.crumb,
                               trend |-> make_trend_dict(pd.value.buzzTrend.items,
                                                         pd.value.poptw.items, Omitted)])

cursor_vars == <<search_fixed, search_cursor, reply_count, call, pc, times, iter,
                 acc, request, outcome, returned, pages, call_history,
                 more_history, reply_history>>

\* Tweet(tweet_data)
ApplyTweet ==
    /\ fn = "Tweet" /\ out = Pending
    /\ out' = TweetInit(arg)
    /\ UNCHANGED <<fn, arg, cursor_vars>>

\* sort_tweets(tweet_list)
ApplySortTweets ==
    /\ fn = "sort_tweets" /\ out = Pending
    /\ out' = Returns(sort_tweets(arg))
    /\ UNCHANGED <<fn, arg, cursor_vars>>

\* get_next_data(url), the request returning arg.response_text
ApplyGetNextData ==
    /\ fn = "get_next_data" /\ out = Pending
    /\ out' = get_next_data(arg.response_text)
    /\ UNCHANGED <<fn, arg, cursor_vars>>

\* Search(query, sort_by=arg.sort_by)
ApplySearch ==
    /\ fn = "Search" /\ out = Pending
    /\ out' = SearchInit(query, search_media, arg.sort_by, arg.response_text)
    /\ UNCHANGED <<fn, arg, cursor_vars>>

\* search_tweet_by_id(id)
ApplySearchTweetById ==
    /\ fn = "search_tweet_by_id" /\ out = Pending
    /\ out' = search_tweet_by_id(arg.response_text)
    /\ UNCHANGED <<fn, arg, cursor_vars>>

\* get_trend()
ApplyGetTrend ==
    /\ fn = "get_trend" /\ out = Pending
    /\ out' = get_trend(arg.response_text)
    /\ UNCHANGED <<fn, arg, cursor_vars>>

NextFunctions ==
    \/ ApplyTweet
    \/ ApplySortTweets
    \/ ApplyGetNextData
    \/ ApplySearch
    \/ ApplySearchTweetById
    \/ ApplyGetTrend

\* One function and its input per behaviour.
InitFunctions ==
    /\ InitObjects
    /\ driven = "Tweet"
    /\ out = Pending
    /\ \/ fn = "Tweet" /\ arg \in TweetRecords
       \/ fn = "sort_tweets" /\ arg \in TweetLists
       \/ /\ fn \in {"get_next_data", "search_tweet_by_id", "get_trend"}
          /\ arg \in {[response_text |-> d] : d \in Documents}
       \/ /\ fn = "Search"
          /\ arg \in {[response_text |-> d, sort_by |-> md] : d \in Documents, md \in SortModes}

SpecFunctions == InitFunctions /\ [][NextFunctions]_vars

\* ------------------------------------------------------------ properties
RECURSIVE Concat(_)
Concat(ss) == IF ss = <<>> THEN <<>> ELSE Head(ss) \o Concat(Tail(ss))

Descending(s) == \A k \in 1..(Len(s) - 1) : s[k].created_at >= s[k + 1].created_at

\* s holds exactly the records of t, each once (ids are unique within a page)
SameRecords(s, t) ==
    /\ Len(s) = Len(t)
    /\ \A k \in 1..Len(t) : \E j \in 1..Len(s) : s[j] = t[k]

OldestOf(s, i) ==
    \E k \in 1..Len(s) :
        /\ s[k].id = i
        /\ \A j \in 1..Len(s) : s[k].created_at <= s[j].created_at

NewestOf(s, i) ==
    \E k \in 1..Len(s) :
        /\ s[k].id = i
        /\ \A j \in 1..Len(s) : s[k].created_at >= s[j].created_at

Constructed == call = "none"

\* C1: after construction in recency mode from a non-empty first page in any
\* upstream order, _oldest_tweet_id is the id of a record of that page with
\* the smallest timestamp and _latest_tweet_id the id of one with the largest.
C1_WatermarksFromTimestamps ==
    (Constructed /\ sort_by = "t" /\ first_page # <<>>) =>
        /\ OldestOf(first_page, oldest_tweet_id)
        /\ NewestOf(first_page, latest_tweet_id)

\* C2: in recency mode results holds exactly the records of the first page,
\* each once, every timestamp >= the timestamp of the record after it.
C2_ResultsSortedDescending ==
    (driven = "Search" /\ sort_by = "t") =>
        /\ SameRecords(results, first_page)
        /\ Descending(results)

C2_Witness ==
    /\ Constructed
    /\ sort_by = "t"
    /\ Len(first_page) >= 2
    /\ first_page[1].created_at < first_page[2].created_at
    /\ results # first_page

\* C3: against an upstream that honours every bound, no get_more_tweets or
\* get_latest_tweets call returns a record that is in the initial results or
\* was returned by an earlier call, and no get_replies call returns a reply
\* an earlier get_replies call returned.
C3_NothingReturnedTwice ==
    outcome = "returned" =>
        /\ call \in {"more", "latest"} => SeqIds(returned) \cap delivered = {}
        /\ call = "replies" => SeqIds(returned) \cap replies_delivered = {}

\* C4: get_replies requests every page at start = _reply_count, _reply_count
\* grows by exactly the size of each page (a zero-record page leaves it
\* unchanged), and the call returns its pages concatenated in upstream order.
C4_RepliesOffsetCursor ==
    call = "replies" =>
        /\ reply_count = reply_sizes
        /\ pc = "fetch" => Last(request).start = reply_count
        /\ \A k \in 1..Len(pages) :
              request[k].start + Len(pages[k]) =
                  IF k < Len(request) THEN request[k + 1].start ELSE reply_count
        /\ outcome = "returned" => returned = Concat(pages)

\* pages of sizes [2, 2, 1] with n = 3: the cursor ends at 5, 5 replies returned
C4_Witness ==
    /\ call = "replies"
    /\ outcome = "returned"
    /\ times = 3
    /\ [k \in 1..Len(pages) |-> Len(pages[k])] = <<2, 2, 1>>
    /\ reply_count = 5
    /\ [k \in 1..Len(returned) |-> returned[k].id] = <<1, 2, 3, 4, 5>>

\* C5 as stated: after k get_more_tweets iterations _tweet_count equals the
\* sum of the per-iteration page sizes.
C5_CountIsSumOfIterationPages ==
    (call = "more" /\ iter >= 1) => tweet_count = more_sizes

\* C5 amended: _tweet_count equals the size of the first page plus the sum of
\* the sizes of the pages of all get_more_tweets iterations so far.
C5_CountIsFirstPagePlusIterationPages ==
    tweet_count = Len(first_page) + more_sizes

C5_Witness ==
    /\ call = "more"
    /\ iter >= 2
    /\ first_page # <<>>
    /\ \A k \in 1..Len(pages) : pages[k] # <<>>
    /\ tweet_count = Len(first_page) + Len(acc)

\* C6: in recency mode, after k get_more_tweets iterations _oldest_tweet_id is
\* the id of the record with the smallest timestamp among all pages fetched
\* so far (the first page and the get_more_tweets pages).
C6_OldestIsOldestFetched ==
    LET seen == SeqIds(first_page) \cup more_ids IN
    (sort_by = "t" /\ call = "more" /\ iter >= 1 /\ seen # {}) =>
        /\ oldest_tweet_id \in seen
        /\ \A i \in seen : CreatedAt(oldest_tweet_id) <= CreatedAt(i)

CursorParams == {"oldestTweetId", "start", "latestTweetId"}

\* C7: every get_more_tweets iteration sends crumb, query and sort mode plus
\* exactly one cursor parameter: in recency mode oldestTweetId, equal to
\* _oldest_tweet_id as the previous iteration (or construction) left it, in
\* popularity mode start, equal to _tweet_count as it was left.
C7_MoreTweetsRequestCursor ==
    [][(call = "more" /\ pc = "loop" /\ pc' = "fetch") =>
        LET url == Last(request') IN
        /\ Len(request') = Len(request) + 1
        /\ url.path = "/api/v1/pagination"
        /\ url.crumb = crumb /\ url.p = query /\ url.md = sort_by
        /\ sort_by = "t" =>
              /\ DOMAIN url \cap CursorParams = {"oldestTweetId"}
              /\ url.oldestTweetId = oldest_tweet_id
        /\ sort_by = "h" =>
              /\ DOMAIN url \cap CursorParams = {"start"}
              /\ url.start = tweet_count]_vars

\* the second request of a recency-mode call carries the bound the first
\* page moved
C7_Witness ==
    /\ call = "more"
    /\ sort_by = "t"
    /\ pc = "fetch"
    /\ Len(request) = 2
    /\ request[2].oldestTweetId # request[1].oldestTweetId
    /\ request[2].oldestTweetId = oldest_tweet_id

\* C8: get_latest_tweets issues one request bounded by _latest_tweet_id and
\* returns the batch sorted descending by timestamp; a non-empty batch moves
\* _latest_tweet_id to the id of its first record after sorting, an empty one
\* leaves it unchanged.
C8_LatestTweets ==
    call = "latest" =>
        /\ Len(request) = 1
        /\ request[1].path = "/api/v1/autoscroll"
        /\ DOMAIN request[1] \cap CursorParams = {"latestTweetId"}
        /\ pc = "fetch" => request[1].latestTweetId = latest_tweet_id
        /\ outcome = "returned" =>
              /\ SameRecords(returned, pages[1])
              /\ Descending(returned)
              /\ returned # <<>> => latest_tweet_id = returned[1].id
              /\ returned = <<>> => latest_tweet_id = request[1].latestTweetId

C8_Witness ==
    /\ call = "latest"
    /\ outcome = "returned"
    /\ Len(returned) >= 2
    /\ returned # pages[1]
    /\ latest_tweet_id = returned[1].id
    /\ latest_tweet_id # request[1].latestTweetId

\* C9: against a well-behaved upstream every record a get_latest_tweets call
\* returns has a timestamp >= every timestamp of the previous newest batch
\* (the initial results, or the last non-empty get_latest_tweets batch).
C9_MonotonicFreshness ==
    (call = "latest" /\ outcome = "returned") =>
        \A k \in 1..Len(returned) : \A j \in 1..Len(newest_batch) :
            returned[k].created_at >= newest_batch[j].created_at

\* C10: a get_more_tweets(n) or get_replies(n) call in which no fetch fails
\* sends exactly n requests, each only after the response to the one before
\* has been consumed, and then returns; a short or empty page never ends it
\* early.
C10_ExactlyNRequestsInSequence ==
    call \in {"more", "replies"} =>
        /\ iter = Len(pages)
        /\ Len(request) = Len(pages) + (IF pc = "fetch" \/ outcome = "raised" THEN 1 ELSE 0)
        /\ Len(request) <= times
        /\ outcome = "returned" => Len(request) = times /\ Len(pages) = times
        /\ pc = "loop" => IF iter < times THEN ENABLED SendRequest ELSE ENABLED Return
        /\ \A k \in 1..(Len(request) - 1) :
              "start" \in DOMAIN request[k] =>
                  request[k + 1].start = request[k].start + Len(pages[k])

C10_Witness ==
    /\ call \in {"more", "replies"}
    /\ outcome = "returned"
    /\ times = 3
    /\ Len(request) = 3
    /\ pages[1] = <<>>
    /\ Len(pages[2]) = 1
    /\ pages[3] = <<>>

\* C11: when the fetch of iteration j of a get_more_tweets or get_replies
\* call fails, the failure reaches the caller, the call sends no retry and no
\* further request, and the caller gets none of the records of iterations
\* 1..j-1.
C11_FailurePropagatesNothingReturned ==
    /\ (pc = "idle" /\ call \in {"more", "replies"} /\ Len(request) > Len(pages)) =>
          outcome = "raised"
    /\ outcome = "raised" =>
          /\ pc = "idle"
          /\ returned = <<>>
          /\ Len(request) = Len(pages) + 1
          /\ ~ENABLED SendRequest

C11_Witness ==
    /\ call = "more"
    /\ outcome = "raised"
    /\ times = 3
    /\ Len(request) = 2
    /\ pages[1] # <<>>
    /\ returned = <<>>

\* C12: an empty first page leaves _oldest_tweet_id and _latest_tweet_id at
\* the empty string and _tweet_count at 0, and a later get_more_tweets or
\* get_latest_tweets call still sends its request, with the empty string as
\* the bound, and raises nothing of its own.
C12_EmptyFirstPage ==
    (driven = "Search" /\ first_page = <<>>) =>
        /\ Constructed =>
              /\ oldest_tweet_id = EmptyId
              /\ latest_tweet_id = EmptyId
              /\ tweet_count = 0
        /\ pc = "idle" => ENABLED GetLatestTweets /\ ENABLED GetMoreTweets(1)
        /\ (pc = "loop" /\ iter < times) => ENABLED SendRequest
        /\ (call = "more" /\ sort_by = "t" /\ more_ids = {}) =>
              \A k \in 1..Len(request) : request[k].oldestTweetId = EmptyId
        /\ (call = "latest" /\ newest_batch = <<>>) =>
              request[1].latestTweetId = EmptyId

C12_Witness ==
    /\ driven = "Search"
    /\ first_page = <<>>
    /\ call = "more"
    /\ sort_by = "t"
    /\ outcome = "returned"
    /\ Len(request) = 2
    /\ request[1].oldestTweetId = EmptyId
    /\ pages[1] = <<>>
    /\ request[2].oldestTweetId = EmptyId
    /\ returned # <<>>

\* ---------------------------------------------------------------- C13
DocumentFunctions == {"get_next_data", "Search", "search_tweet_by_id", "get_trend"}

\* C13: when the fetched document holds no __NEXT_DATA__ script element,
\* get_next_data, and with it Search construction, search_tweet_by_id and
\* get_trend, ends by raising (the IndexError of indexing the empty list of
\* matches); none of them returns a value.
C13_NoMarkerEndsInError ==
    (fn \in DocumentFunctions /\ out # Pending /\ ~HasMarker(arg.response_text)) =>
        out = Raises("IndexError")

C13_Witness ==
    /\ fn = "Search"
    /\ arg.response_text = <<Markup, OtherScript>>
    /\ out = Raises("IndexError")

\* ---------------------------------------------------------------- C14
\* C14: mapping an upstream record always succeeds; without quotedTweet (or
\* with a null one) the Tweet's quoted_tweet is None, and with one it is the
\* url up to, not including, its first '?'.
C14_QuotedTweetField ==
    (fn = "Tweet" /\ out # Pending) =>
        /\ out.kind = "return"
        /\ IF "quotedTweet" \notin DOMAIN arg THEN out.value.quoted_tweet = None
           ELSE IF arg.quotedTweet = None THEN out.value.quoted_tweet = None
           ELSE LET url == arg.quotedTweet.url
                    q == out.value.quoted_tweet
                IN  /\ q.py = "str"
                    /\ Len(q.chars) <= Len(url)
                    /\ \A k \in 1..Len(q.chars) : q.chars[k] = url[k] /\ q.chars[k] # "?"
                    /\ Len(q.chars) < Len(url) => url[Len(q.chars) + 1] = "?"

C14_Witness ==
    /\ fn = "Tweet"
    /\ "quotedTweet" \notin DOMAIN arg
    /\ out.kind = "return"
    /\ out.value.quoted_tweet = None

\* ---------------------------------------------------------------- C15
\* C15: sort_tweets returns its input's records, each once, in descending
\* timestamp order, records of equal timestamp in the order they came in
\* (the k-th record of the input has id k), and sorting the result again
\* changes nothing.
C15_SortStableIdempotent ==
    (fn = "sort_tweets" /\ out # Pending) =>
        /\ out.kind = "return"
        /\ Descending(out.value)
        /\ SameRecords(out.value, arg)
        /\ \A i, j \in 1..Len(out.value) :
              (i < j /\ out.value[i].created_at = out.value[j].created_at) =>
                  out.value[i].id < out.value[j].id
        /\ sort_tweets(out.value) = out.value

C15_Witness ==
    /\ fn = "sort_tweets"
    /\ out # Pending
    /\ Len(arg) = 3
    /\ arg[1].created_at = 1 /\ arg[2].created_at = 2 /\ arg[3].created_at = 1
    /\ out.value[1].id = 2 /\ out.value[2].id = 1 /\ out.value[3].id = 3

\* ---------------------------------------------------------------- C16
\* C16: whenever get_trend returns, the mapping has exactly the keys
\* 'trend', 'tweet' and 'word', each holding one remapped entry per item of
\* the upstream collection, an empty collection included.
C16_TrendHasThreeKeys ==
    (fn = "get_trend" /\ out.kind = "return") =>
        LET pd == get_next_data(arg.response_text).value.props.pageProps.pageData
        IN  /\ DOMAIN out.value = {"trend", "tweet", "word"}
            /\ Len(out.value.trend) = Len(pd.buzzTrend.items)
            /\ Len(out.value.tweet) = Len(pd.poptw.items)
            /\ Len(out.value.word) = Len(pd.hotBuzz.items)

\* ---------------------------------------------------------------- C20
\* C20: the mapped Tweet's rt_count is the upstream record's retweet count
\* and its reply_count the record's reply count, each from its own field.
C20_CountersFromOwnFields ==
    (fn = "Tweet" /\ out.kind = "return") =>
        /\ out.value.rt_count = arg.rtCount
        /\ out.value.reply_count = arg.replyCount

\* ---------------------------------------------------------------- C17
RECURSIVE SizeBefore(_, _)
SizeBefore(ps, k) == IF k <= 1 THEN 0 ELSE SizeBefore(ps, k - 1) + Len(ps[k - 1])

\* the part of list s that iteration k contributed, pages ps having arrived
Segment(s, ps, k) == SubSeq(s, SizeBefore(ps, k) + 1, SizeBefore(ps, k) + Len(ps[k]))

\* C17: what get_more_tweets returns is its pages one after another in
\* iteration order; in recency mode each page's part is that page sorted
\* descending by timestamp on its own, in popularity mode each part is the
\* page as it arrived, and the results captured at construction are the
\* first page as it arrived.
C17_PagesSortedOnTheirOwn ==
    /\ (call = "more" /\ outcome = "returned") =>
          /\ Len(pages) = times
          /\ Len(returned) = SizeBefore(pages, Len(pages) + 1)
          /\ \A k \in 1..Len(pages) :
                IF sort_by = "t"
                THEN /\ Descending(Segment(returned, pages, k))
                     /\ SameRecords(Segment(returned, pages, k), pages[k])
                ELSE Segment(returned, pages, k) = pages[k]
    /\ sort_by = "h" => results = first_page

C17_Witness ==
    /\ call = "more" /\ outcome = "returned" /\ sort_by = "t"
    /\ Len(pages) = 2
    /\ ~Descending(pages[1])
    /\ pages[2] # <<>>
    /\ returned # Concat(pages)

\* ---------------------------------------------------------------- C18
\* C18: the step in which a fetch of get_more_tweets or get_replies fails
\* changes no cursor field, so the cursor stays where the iterations before
\* it put it: _tweet_count at the first page plus every page fetched so far,
\* _oldest_tweet_id at the last record accumulated in this call (or where
\* the call found it), _reply_count at the number of replies fetched so far.
C18_FailureKeepsAdvancedCursor ==
    [][(pc = "fetch" /\ outcome' = "raised") =>
          /\ oldest_tweet_id' = oldest_tweet_id
          /\ tweet_count' = tweet_count
          /\ reply_count' = reply_count
          /\ latest_tweet_id' = latest_tweet_id
          /\ call = "more" =>
                /\ tweet_count' = Len(first_page) + more_sizes
                /\ acc # <<>> => oldest_tweet_id' = Last(acc).id
                /\ (acc = <<>> /\ sort_by = "t") =>
                      oldest_tweet_id' = request[1].oldestTweetId
                /\ sort_by = "h" => tweet_count' = request[1].start + Len(acc)
          /\ call = "replies" =>
                /\ reply_count' = request[1].start + Len(acc)
                /\ reply_count' = reply_sizes]_vars

C18_Witness ==
    /\ call = "more" /\ sort_by = "t" /\ outcome = "raised"
    /\ Len(request) = 3 /\ Len(pages) = 2
    /\ pages[1] # <<>> /\ pages[2] # <<>>
    /\ oldest_tweet_id = request[3].oldestTweetId
    /\ oldest_tweet_id # request[1].oldestTweetId
    /\ tweet_count = Len(first_page) + Len(pages[1]) + Len(pages[2])

\* ---------------------------------------------------------------- C19
\* C19: no step of any call changes crumb, query, sort mode, the media flag
\* or the results captured at construction; a step of get_latest_tweets
\* leaves _oldest_tweet_id, _tweet_count and the Tweet's _reply_count alone,
\* a step of get_more_tweets leaves _latest_tweet_id and _reply_count alone,
\* and a step of get_replies leaves all three cursor fields of the Search
\* alone.
C19_ForeignCursorFieldsUnchanged ==
    [][/\ UNCHANGED <<crumb, query, sort_by, search_media, results>>
       /\ call' = "latest" => UNCHANGED <<oldest_tweet_id, tweet_count, reply_count>>
       /\ call' = "more" => UNCHANGED <<latest_tweet_id, reply_count>>
       /\ call' = "replies" => UNCHANGED <<oldest_tweet_id, latest_tweet_id, tweet_count>>]_vars

C19_Witness ==
    /\ call = "latest" /\ outcome = "returned" /\ returned # <<>>
    /\ first_page # <<>>
    /\ latest_tweet_id = returned[1].id
    /\ latest_tweet_id # InitLatestTweetId(first_page)
    /\ oldest_tweet_id = InitOldestTweetId(first_page)
    /\ oldest_tweet_id # Last(returned).id
    /\ tweet_count = Len(first_page)
    /\ more_sizes = 0

====
